---- MODULE Spec2Model ----
(***************************************************************************)
(* Model of minicss.py: MinimizeCSS.minimize_to, the single-pass scanner    *)
(* that strips block comments and collapses runs of line breaks.            *)
(*                                                                          *)
(* A file is a sequence of one-character strings; the cursor of the input   *)
(* file is `pos`, the number of characters consumed so far.  One action of  *)
(* the model is one statement group of minimize_to: the opening of the      *)
(* output, the opening of the input, one iteration of the `while char:`     *)
(* loop (its drain loop included), and the closing of the files.            *)
(***************************************************************************)
EXTENDS Integers, Sequences, FiniteSets, TLC

\* ------------------------------------------------------------ characters
LF == "\n"
CR == "\r"
TAB == "\t"
FF == "\f"
SP == " "
BAR == "|"
SLASH == "/"
STAR == "*"
\* f.read(1) at end of file
EOF == ""
\* `char = True` before the first read
NotRead == "True"

\* ---------------------------------------------------------------- bounds
MaxLen == 3
MaxBreakLen == 4
MaxTok == 5
MaxPart == 2

Strs(A, n) ==
    UNION {[1..k -> A] : k \in 0..n}

Alphabet ==
    {"a", SLASH, STAR, LF, CR, SP, TAB, FF, BAR}

\* every text over the whole alphabet, up to MaxLen characters
GeneralInputs ==
    Strs(Alphabet, MaxLen)

\* longer texts without comment characters: line breaks, blanks, '|'
BreakInputs ==
    Strs({"a", LF, CR, SP, BAR}, MaxBreakLen)

\* P + "/*" + C + "*/" + S
RemovalInputs ==
    {P \o <<SLASH, STAR>> \o C \o <<STAR, SLASH>> \o S :
        P \in Strs({"a", SP}, MaxPart),
        C \in Strs({"c", LF, BAR}, MaxPart),
        S \in {<<>>, <<"b">>, <<SP>>, <<SP, "b">>}}

\* token texts: "a", an opener, then openers, closers and letters, then "b"
Tok(t) ==
    CASE t = "O" -> <<SLASH, STAR>>
      [] t = "X" -> <<STAR, SLASH>>
      [] OTHER -> <<"c">>

RECURSIVE Flatten(_)
Flatten(ts) ==
    IF ts = <<>> THEN <<>> ELSE Tok(Head(ts)) \o Flatten(Tail(ts))

TokSeqs ==
    {<<"O">> \o ts : ts \in Strs({"O", "X", "c"}, MaxTok)}

NestInputs ==
    {<<"a">> \o Flatten(ts) \o <<"b">> : ts \in TokSeqs}

\* the examples of the specification's section 8 and of the module notes
Examples ==
    { <<"a", "/", "*", "c", "o", "m", "*", "/", "b">>,
      <<"a", "/", "*", "c", "o", "m">>,
      <<"a", LF, LF, LF, "b">>,
      <<LF, LF, "a">>,
      <<"a", LF, SP, SP, SP, LF, "b">>,
      <<"a", LF, TAB, FF, LF, "b">>,
      <<"a", CR, LF, "b">>,
      <<"a", LF, "/", "*", "c", "*", "/", LF, "b">>,
      <<"/", LF, "*", LF, "c", LF, "*", LF, "/", "a">>,
      <<"a", "*", "/", "b">> }

Inputs ==
    GeneralInputs \cup BreakInputs \cup RemovalInputs \cup NestInputs \cup Examples

\* the file contents explored for runs of main(): the short texts only, as a
\* run that fails and is caught scans its input a second time
MainInputs ==
    GeneralInputs

\* --------------------------------------------------- character classes
\* a lookahead that skips the letter "c" as well
LookaheadSkipClass_AndLetter ==
    {CR, BAR, TAB, LF, FF, SP, "c"}

\* re.match('[\r|\t|\n|\f| |]', next_char): a character class, so the '|'
\* between the alternatives is itself a member of the class
LookaheadSkipClass ==
    {CR, BAR, TAB, LF, FF, SP}

\* re.match('[\r|\n]', char): again '|' is a member of the class
NewlineClass ==
    {CR, BAR, LF}

\* ------------------------------------------------------- file primitives
\* f.read(1) with the cursor after p characters of s
Read1(s, p) ==
    IF p < Len(s) THEN s[p + 1] ELSE EOF

\* a lookahead that does not skip: the character right after the cursor
get_next_char_NoSkip(s, p) ==
    Read1(s, p)

\* __get_next_char: read on from the cursor until end of file or a character
\* outside the class, then seek back; the value is the character read last
RECURSIVE get_next_char(_, _)
get_next_char(s, p) ==
    IF Read1(s, p) = EOF THEN EOF
    ELSE IF Read1(s, p) \in LookaheadSkipClass THEN get_next_char(s, p + 1)
    ELSE Read1(s, p)

\* lines 50-57: the cursor of the file when the reading loop of
\* __get_next_char ends: after the first character outside the class, or at
\* the end of the file
RECURSIVE ReadAhead(_, _)
ReadAhead(s, p) ==
    IF p >= Len(s) THEN p
    ELSE IF s[p + 1] \in LookaheadSkipClass THEN ReadAhead(s, p + 1)
    ELSE p + 1

\* a lookahead that does not seek back
CursorAfterPeek_NoSeek(s, p) ==
    ReadAhead(s, p)

\* lines 49 and 60: orig = file.tell() before the reading loop and
\* file.seek(orig, 0) after it; the cursor __get_next_char leaves behind
CursorAfterPeek(s, p) ==
    p

\* while(f.read(1) != d): continue -- the cursor after the loop, or -1 when
\* no d lies ahead (read(1) then returns '' for ever and the loop never ends)
RECURSIVE Drain(_, _, _)
Drain(s, p, d) ==
    IF p >= Len(s) THEN -1
    ELSE IF s[p + 1] = d THEN p + 1
    ELSE Drain(s, p + 1, d)

\* ------------------------------------------------------------ the state
VARIABLES
    output_file,             \* the argument of minimize_to: "None" or "path"
    o,                       \* the output handle: "None", "open" or "closed"
    f,                       \* the input handle: "None", "open" or "closed"
    input,                   \* the content of the input file
    pos,                     \* the cursor of f: characters consumed
    char,                    \* the character read last
    in_comment,
    inner_comment_count,
    last_char_was_newline,
    stdout,                  \* the characters written to sys.stdout
    outfile,                 \* the content of the output file
    pc,                      \* "start", "call", "open_input", "loop", "spin",
                             \* "close", "done" (minimize_to returned), "raised"
                             \* (left by an exception) or "exit" (main returned
                             \* without a scan)
    mainpc,                  \* where main() stands: "off" (the class is used
                             \* directly), "tail" (line 169), "try" (line 164),
                             \* "handler" (line 167 after line 162 failed) or
                             \* "caught" (line 167 after line 164 raised)
    sinkBase,                \* history: the length of the sink of the running
                             \* minimize_to call when the call began
    emitPos,                 \* history: the source index of each written character
    openPos                  \* history: the source index of the '/' that opened
                             \* the comment the scanner is in, 0 outside comments

vars ==
    <<output_file, o, f, input, pos, char, in_comment, inner_comment_count,
      last_char_was_newline, stdout, outfile, pc, mainpc, sinkBase, emitPos,
      openPos>>

\* the locals of the scan loop as one record
Locals ==
    [pos |-> pos, char |-> char, in_comment |-> in_comment,
     inner_comment_count |-> inner_comment_count,
     last_char_was_newline |-> last_char_was_newline, hang |-> FALSE]

\* the scan starting as if the last character written were no line break
InitialLocals_NotAfterBreak ==
    [pos |-> 0, char |-> NotRead, in_comment |-> FALSE,
     inner_comment_count |-> 0, last_char_was_newline |-> FALSE, hang |-> FALSE]

\* lines 95-103: the locals before the first iteration
InitialLocals ==
    [pos |-> 0, char |-> NotRead, in_comment |-> FALSE,
     inner_comment_count |-> 0, last_char_was_newline |-> TRUE, hang |-> FALSE]

\* ------------------------------------------------------ one loop iteration
\* line 107: char = f.read(1)
Fetch(s, st) ==
    [st EXCEPT !.char = Read1(s, st.pos),
               !.pos = IF st.pos < Len(s) THEN st.pos + 1 ELSE st.pos]

\* line 108: next_char = self.__get_next_char(f), its effect on the cursor
Peek(s, st) ==
    [st EXCEPT !.pos = CursorAfterPeek(s, st.pos)]

\* the drain loops of lines 113, 117 and 124
SeekPast(s, st, d) ==
    IF Drain(s, st.pos, d) = -1
    THEN [st EXCEPT !.pos = Len(s), !.hang = TRUE]
    ELSE [st EXCEPT !.pos = Drain(s, st.pos, d)]

\* a line-break test that takes every white-space character for a line break
IsNewline_AnyWhitespace(c) ==
    c \in {CR, LF, BAR, SP, TAB, FF}

\* re.match('[\r|\n]', char) as a truth value
IsNewline(c) ==
    c \in NewlineClass

\* a closer branch that does not ask for in_comment
Branch_CloserAnywhere(s, st) ==
    CASE ~st.in_comment /\ st.char = SLASH /\ get_next_char(s, st.pos) = STAR
           -> "opener"
      [] st.in_comment /\ st.char = SLASH /\ get_next_char(s, st.pos) = STAR
           -> "inner"
      [] st.char = STAR /\ get_next_char(s, st.pos) = SLASH
           -> "closer"
      [] OTHER -> IF ~st.in_comment THEN "plain" ELSE "none"

\* the last branch as a plain `else`: text inside a comment is written too
Branch_ElseEmits(s, st) ==
    CASE ~st.in_comment /\ st.char = SLASH /\ get_next_char(s, st.pos) = STAR
           -> "opener"
      [] st.in_comment /\ st.char = SLASH /\ get_next_char(s, st.pos) = STAR
           -> "inner"
      [] st.in_comment /\ st.char = STAR /\ get_next_char(s, st.pos) = SLASH
           -> "closer"
      [] OTHER -> "plain"

\* which branch of the if/elif chain of lines 110-126 is taken, for the
\* locals st after the read of line 107
Branch(s, st) ==
    CASE ~st.in_comment /\ st.char = SLASH /\ get_next_char(s, st.pos) = STAR
           -> "opener"
      [] st.in_comment /\ st.char = SLASH /\ get_next_char(s, st.pos) = STAR
           -> "inner"
      [] st.in_comment /\ st.char = STAR /\ get_next_char(s, st.pos) = SLASH
           -> "closer"
      [] OTHER -> IF ~st.in_comment THEN "plain" ELSE "none"

\* lines 111-113
BeginComment(s, st) ==
    SeekPast(s, [st EXCEPT !.in_comment = TRUE], STAR)

\* an inner opener that is skipped but not counted
BeginInnerComment_NoCount(s, st) ==
    SeekPast(s, st, STAR)

\* lines 116-117
BeginInnerComment(s, st) ==
    SeekPast(s, [st EXCEPT !.inner_comment_count = @ + 1], STAR)

\* a closer whose drain looks for '*' instead of '/'
EndComment_SeeksStar(s, st) ==
    SeekPast(s,
             IF st.inner_comment_count > 0
             THEN [st EXCEPT !.inner_comment_count = @ - 1]
             ELSE [st EXCEPT !.in_comment = FALSE],
             STAR)

\* a closer that leaves the comment whatever the count of inner comments
EndComment_AlwaysLeaves(s, st) ==
    SeekPast(s, [st EXCEPT !.in_comment = FALSE], SLASH)

\* a closer that does not seek past its '/'
EndComment_NoSeek(s, st) ==
    IF st.inner_comment_count > 0
    THEN [st EXCEPT !.inner_comment_count = @ - 1]
    ELSE [st EXCEPT !.in_comment = FALSE]

\* lines 120-124
EndComment(s, st) ==
    SeekPast(s,
             IF st.inner_comment_count > 0
             THEN [st EXCEPT !.inner_comment_count = @ - 1]
             ELSE [st EXCEPT !.in_comment = FALSE],
             SLASH)

\* an output that normalises a carriage return to a line feed
PlainEmit_NormalisesCR(st) ==
    IF ~(st.char \in NewlineClass /\ st.last_char_was_newline)
    THEN (IF st.char = CR THEN LF ELSE st.char)
    ELSE EOF

\* lines 128-129: what __output receives, EOF (the empty string) for nothing
PlainEmit(st) ==
    IF ~(IsNewline(st.char) /\ st.last_char_was_newline) THEN st.char ELSE EOF

\* the flag never updated
PlainText_KeepsFlag(s, st) ==
    st

\* line 130
PlainText(s, st) ==
    [st EXCEPT !.last_char_was_newline = IsNewline(st.char)]

\* lines 107-130: the locals after one iteration and the string written by it
LoopBody(s, st0) ==
    LET b == Branch(s, Fetch(s, st0))
        st == Peek(s, Fetch(s, st0))
    IN  CASE b = "opener" -> [st |-> BeginComment(s, st), emit |-> EOF]
          [] b = "inner" -> [st |-> BeginInnerComment(s, st), emit |-> EOF]
          [] b = "closer" -> [st |-> EndComment(s, st), emit |-> EOF]
          [] b = "plain" -> [st |-> PlainText(s, st), emit |-> PlainEmit(st)]
          [] OTHER -> [st |-> st, emit |-> EOF]

\* lines 95-130 as a function of the file content: the text written by a
\* scan that no I/O error interrupts
RECURSIVE ScanFrom(_, _, _)
ScanFrom(s, st, out) ==
    IF st.char = EOF \/ st.hang THEN out
    ELSE LET r == LoopBody(s, st)
         IN  ScanFrom(s, r.st, IF r.emit = EOF THEN out ELSE Append(out, r.emit))

Scan(s) ==
    ScanFrom(s, InitialLocals, <<>>)

\* ------------------------------------------------------------- actions
Init ==
    /\ output_file = "None"
    /\ o = "None"
    /\ f = "None"
    /\ input = <<>>
    /\ pos = 0
    /\ char = NotRead
    /\ in_comment = FALSE
    /\ inner_comment_count = 0
    /\ last_char_was_newline = TRUE
    /\ stdout = <<>>
    /\ outfile = <<>>
    /\ pc = "start"
    /\ mainpc = "off"
    /\ sinkBase = 0
    /\ emitPos = <<>>
    /\ openPos = 0

\* __output (lines 68-72): e goes to the file when there is a handle, to
\* sys.stdout otherwise; writing the empty string changes nothing
Output(e) ==
    IF e = EOF THEN UNCHANGED <<stdout, outfile>>
    ELSE IF o # "None" THEN outfile' = Append(outfile, e) /\ UNCHANGED stdout
    ELSE stdout' = Append(stdout, e) /\ UNCHANGED outfile

\* minimize_to is entered with argument of: called by a user of the class
\* (lines 24-26), or by main() with the argument main() has chosen
Entered(of) ==
    \/ pc = "start" /\ mainpc = "off" /\ output_file' = of
    \/ pc = "call" /\ output_file = of /\ output_file' = of

\* lines 79-80 with output_file None: no handle
MinimizeToScreen ==
    /\ Entered("None")
    /\ o' = "None"
    /\ sinkBase' = Len(stdout)
    /\ pc' = "open_input"
    /\ UNCHANGED <<f, input, pos, char, in_comment, inner_comment_count,
                   last_char_was_newline, stdout, outfile, mainpc, emitPos,
                   openPos>>

\* lines 80-82: open(output_file, 'w') succeeds and truncates the file
MinimizeToFile ==
    /\ Entered("path")
    /\ o' = "open"
    /\ outfile' = <<>>
    /\ sinkBase' = 0
    /\ pc' = "open_input"
    /\ UNCHANGED <<f, input, pos, char, in_comment, inner_comment_count,
                   last_char_was_newline, stdout, mainpc, emitPos, openPos>>

\* lines 83-85: open(output_file, 'w') fails, the handle stays None
MinimizeToFileFails ==
    /\ Entered("path")
    /\ o' = "None"
    /\ sinkBase' = Len(stdout)
    /\ pc' = "open_input"
    /\ UNCHANGED <<f, input, pos, char, in_comment, inner_comment_count,
                   last_char_was_newline, stdout, outfile, mainpc, emitPos,
                   openPos>>

\* lines 87-103: the input opens, with some content, and the locals are set;
\* a second scan of the same run finds the content the first one found
OpenInput ==
    /\ pc = "open_input"
    /\ CASE mainpc = "caught" -> input' = input
         [] mainpc = "off" -> \E s \in Inputs : input' = s
         [] OTHER -> \E s \in MainInputs : input' = s
    /\ f' = "open"
    /\ pos' = InitialLocals.pos
    /\ char' = InitialLocals.char
    /\ in_comment' = InitialLocals.in_comment
    /\ inner_comment_count' = InitialLocals.inner_comment_count
    /\ last_char_was_newline' = InitialLocals.last_char_was_newline
    /\ pc' = "loop"
    /\ UNCHANGED <<output_file, o, stdout, outfile, mainpc, sinkBase, emitPos,
                   openPos>>

\* lines 90-93: the input does not open; minimize_to returns at once
OpenInputFails ==
    /\ pc = "open_input"
    /\ pc' = "done"
    /\ UNCHANGED <<output_file, o, f, input, pos, char, in_comment,
                   inner_comment_count, last_char_was_newline, stdout, outfile,
                   mainpc, sinkBase, emitPos, openPos>>

\* lines 106-130: the effect of one iteration of the loop on the state
Iterate ==
    /\ LET r == LoopBody(input, Locals)
           at == Fetch(input, Locals).pos
       IN  /\ pos' = r.st.pos
           /\ char' = r.st.char
           /\ in_comment' = r.st.in_comment
           /\ inner_comment_count' = r.st.inner_comment_count
           /\ last_char_was_newline' = r.st.last_char_was_newline
           /\ Output(r.emit)
           /\ pc' = IF r.st.hang THEN "spin"
                    ELSE IF r.st.char = EOF THEN "close" ELSE "loop"
           /\ emitPos' = IF r.emit = EOF THEN emitPos ELSE Append(emitPos, at)
           /\ openPos' = IF ~in_comment /\ r.st.in_comment THEN at
                         ELSE IF r.st.in_comment THEN openPos ELSE 0
    /\ UNCHANGED <<output_file, o, f, input, mainpc, sinkBase>>

\* the branch the next iteration takes
Taken ==
    Branch(input, Fetch(input, Locals))

\* line 110: the iteration finds the beginning of a comment
ReadOpener ==
    /\ pc = "loop"
    /\ Taken = "opener"
    /\ Iterate

\* line 115: the iteration finds the beginning of an inner comment
ReadInnerOpener ==
    /\ pc = "loop"
    /\ Taken = "inner"
    /\ Iterate

\* line 119: the iteration finds the end of a comment
ReadCloser ==
    /\ pc = "loop"
    /\ Taken = "closer"
    /\ Iterate

\* line 126: the iteration reads plain text (or the end of file)
ReadPlain ==
    /\ pc = "loop"
    /\ Taken = "plain"
    /\ Iterate

\* no branch: the iteration reads a character inside a comment
ReadInsideComment ==
    /\ pc = "loop"
    /\ Taken = "none"
    /\ Iterate

\* a read, seek or write of lines 106-130 raises: the exception leaves
\* minimize_to, which has no handler and no finally around the loop
IOError ==
    /\ pc = "loop"
    /\ pc' = "raised"
    /\ UNCHANGED <<output_file, o, f, input, pos, char, in_comment,
                   inner_comment_count, last_char_was_newline, stdout, outfile,
                   mainpc, sinkBase, emitPos, openPos>>

\* lines 132-135
CloseFiles ==
    /\ pc = "close"
    /\ f' = "closed"
    /\ o' = IF o # "None" THEN "closed" ELSE o
    /\ pc' = "done"
    /\ UNCHANGED <<output_file, input, pos, char, in_comment,
                   inner_comment_count, last_char_was_newline, stdout, outfile,
                   mainpc, sinkBase, emitPos, openPos>>

\* main(), lines 140-146: too few or too many arguments; nothing is scanned
MainUsage ==
    /\ pc = "start"
    /\ mainpc = "off"
    /\ mainpc' = "usage"
    /\ pc' = "exit"
    /\ UNCHANGED <<output_file, o, f, input, pos, char, in_comment,
                   inner_comment_count, last_char_was_newline, stdout, outfile,
                   sinkBase, emitPos, openPos>>

\* main(), lines 148-154: the input path does not open; nothing is scanned
MainInputUnreadable ==
    /\ pc = "start"
    /\ mainpc = "off"
    /\ mainpc' = "unreadable"
    /\ pc' = "exit"
    /\ UNCHANGED <<output_file, o, f, input, pos, char, in_comment,
                   inner_comment_count, last_char_was_newline, stdout, outfile,
                   sinkBase, emitPos, openPos>>

\* main(), lines 148-157 and 168-169: no output path; minimize_to(None) is
\* called outside any try
MainNoOutputPath ==
    /\ pc = "start"
    /\ mainpc = "off"
    /\ mainpc' = "tail"
    /\ output_file' = "None"
    /\ pc' = "call"
    /\ UNCHANGED <<o, f, input, pos, char, in_comment, inner_comment_count,
                   last_char_was_newline, stdout, outfile, sinkBase, emitPos,
                   openPos>>

\* main(), lines 159-164: the output path opens for writing (which empties
\* the file) and is closed again; minimize_to(argv[2]) is called inside the try
MainOutputWritable ==
    /\ pc = "start"
    /\ mainpc = "off"
    /\ mainpc' = "try"
    /\ outfile' = <<>>
    /\ output_file' = "path"
    /\ pc' = "call"
    /\ UNCHANGED <<o, f, input, pos, char, in_comment, inner_comment_count,
                   last_char_was_newline, stdout, sinkBase, emitPos, openPos>>

\* main(), lines 159-162 and 165-167: the output path does not open;
\* minimize_to(None) is called by the handler
MainOutputUnwritable ==
    /\ pc = "start"
    /\ mainpc = "off"
    /\ mainpc' = "handler"
    /\ output_file' = "None"
    /\ pc' = "call"
    /\ UNCHANGED <<o, f, input, pos, char, in_comment, inner_comment_count,
                   last_char_was_newline, stdout, outfile, sinkBase, emitPos,
                   openPos>>

\* main(), lines 164-167: an exception that leaves minimize_to(argv[2]) is
\* caught by the bare except, and the handler calls minimize_to(None); the
\* frame of the abandoned call is gone, its handles were never closed
MainCatches ==
    /\ pc = "raised"
    /\ mainpc = "try"
    /\ mainpc' = "caught"
    /\ output_file' = "None"
    /\ pc' = "call"
    /\ o' = "None"
    /\ f' = "None"
    /\ pos' = 0
    /\ char' = NotRead
    /\ in_comment' = FALSE
    /\ inner_comment_count' = 0
    /\ last_char_was_newline' = TRUE
    /\ emitPos' = <<>>
    /\ openPos' = 0
    /\ sinkBase' = Len(stdout)
    /\ UNCHANGED <<input, stdout, outfile>>

Next ==
    \/ MinimizeToScreen
    \/ MinimizeToFile
    \/ MinimizeToFileFails
    \/ OpenInput
    \/ OpenInputFails
    \/ ReadOpener
    \/ ReadInnerOpener
    \/ ReadCloser
    \/ ReadPlain
    \/ ReadInsideComment
    \/ IOError
    \/ CloseFiles
    \/ MainUsage
    \/ MainInputUnreadable
    \/ MainNoOutputPath
    \/ MainOutputWritable
    \/ MainOutputUnwritable
    \/ MainCatches

Spec ==
    Init /\ [][Next]_vars

\* the sink of the running minimize_to call
Sink ==
    IF o # "None" THEN outfile ELSE stdout

\* the text the running minimize_to call has written so far
Emitted ==
    SubSeq(Sink, sinkBase + 1, Len(Sink))

\* ------------------------------------------------- vocabulary of the claims
\* the scan ran to its end and minimize_to returned
Finished ==
    pc = "done" /\ f = "closed"

\* letters, digits and spaces
PlainChars ==
    {"a", "b", "c", "o", "m", SP}

\* space, tab, carriage return, line feed, form feed
Whitespace ==
    {SP, TAB, CR, LF, FF}

\* carriage return and line feed
LineBreaks ==
    {CR, LF}

AllIn(s, A) ==
    \A i \in 1..Len(s) : s[i] \in A

\* input = P + "/*" + C + "*/" + S with the "/*" at i and the "*/" at j
IsRemovalForm(s, i, j) ==
    /\ i + 1 < j
    /\ j < Len(s)
    /\ s[i] = SLASH /\ s[i + 1] = STAR
    /\ s[j] = STAR /\ s[j + 1] = SLASH
    /\ AllIn(SubSeq(s, 1, i - 1), PlainChars)
    /\ AllIn(SubSeq(s, j + 2, Len(s)), PlainChars)
    /\ \A k \in (i + 2)..(j - 1) : s[k] \notin {SLASH, STAR}

\* C1  Full removal: when the scan of an input P + "/*" + C + "*/" + S (P and S
\* of letters, digits and spaces, C without '/' and '*') has finished, the text
\* written is exactly P + S.
C1_FullRemoval ==
    Finished =>
        \A i \in 1..Len(input), j \in 1..Len(input) :
            IsRemovalForm(input, i, j) =>
                Emitted = SubSeq(input, 1, i - 1) \o SubSeq(input, j + 2, Len(input))

C1_Witness ==
    /\ Finished
    /\ input = <<"a", "/", "*", "c", "o", "m", "*", "/", "b">>
    /\ Emitted = <<"a", "b">>

\* the nesting depth a token text reaches, counted on the tokens alone
RECURSIVE TokDepth(_)
TokDepth(ts) ==
    IF ts = <<>> THEN 0
    ELSE TokDepth(SubSeq(ts, 1, Len(ts) - 1))
         + (CASE ts[Len(ts)] = "O" -> 1 [] ts[Len(ts)] = "X" -> -1 [] OTHER -> 0)

\* the comment opened by the first token is still open after each of the
\* first k tokens
OpenThrough(ts, k) ==
    \A j \in 1..k : TokDepth(SubSeq(ts, 1, j)) > 0

Wrapped(ts) ==
    <<"a">> \o Flatten(ts) \o <<"b">>

\* a text read back as tokens: "/*" is O, "*/" is X, "c" is c, "?" for the
\* rest of a text that is no token text
RECURSIVE ParseTok(_)
ParseTok(s) ==
    IF s = <<>> THEN <<>>
    ELSE IF s[1] = "c" THEN <<"c">> \o ParseTok(Tail(s))
    ELSE IF Len(s) >= 2 /\ s[1] = SLASH /\ s[2] = STAR
         THEN <<"O">> \o ParseTok(SubSeq(s, 3, Len(s)))
    ELSE IF Len(s) >= 2 /\ s[1] = STAR /\ s[2] = SLASH
         THEN <<"X">> \o ParseTok(SubSeq(s, 3, Len(s)))
    ELSE <<"?">>

\* s is "a" + tokens + "b" and the first token is an opener
IsNestText(s) ==
    /\ Len(s) >= 4
    /\ s[1] = "a"
    /\ s[Len(s)] = "b"
    /\ ParseTok(SubSeq(s, 2, Len(s) - 1))[1] = "O"
    /\ \A i \in 1..Len(ParseTok(SubSeq(s, 2, Len(s) - 1))) :
           ParseTok(SubSeq(s, 2, Len(s) - 1))[i] # "?"

NestTokens(s) ==
    ParseTok(SubSeq(s, 2, Len(s) - 1))

\* C2  Nesting: in a text "a" + tokens + "b" whose first token opens a comment,
\* as long as the openers seen outnumber the closers seen the scanner is in
\* the comment with inner_comment_count one less than that difference and has
\* written only "a"; the closer that balances the first opener returns it to
\* plain text; and when that closer is the last token the text written is "ab".
C2_Nesting ==
    (IsNestText(input) /\ pc \in {"loop", "close", "done"}) =>
        LET ts == NestTokens(input)
        IN  /\ \A k \in 1..Len(ts) :
                   (OpenThrough(ts, k - 1)
                    /\ pos = 1 + Len(Flatten(SubSeq(ts, 1, k)))) =>
                       /\ Emitted = <<"a">>
                       /\ in_comment = (TokDepth(SubSeq(ts, 1, k)) > 0)
                       /\ in_comment =>
                              inner_comment_count = TokDepth(SubSeq(ts, 1, k)) - 1
            /\ (Finished /\ OpenThrough(ts, Len(ts) - 1) /\ TokDepth(ts) = 0) =>
                   Emitted = <<"a", "b">>

C2_Witness ==
    /\ Finished
    /\ input = Wrapped(<<"O", "O", "c", "X", "c", "X">>)
    /\ IsNestText(input)
    /\ Emitted = <<"a", "b">>

\* C3  Unterminated comment: when the scan finishes inside a comment, the whole
\* input has been consumed without the scan hanging, nothing from the opener of
\* that comment on has been written, and the text written is what the scan
\* writes for the input cut before that opener; for a token text
\* "a" + tokens + "b" whose first comment never closes the text written is "a".
C3_Unterminated ==
    /\ pc # "spin"
    /\ (Finished /\ in_comment) =>
           /\ openPos \in 1..Len(input)
           /\ pos = Len(input)
           /\ \A k \in 1..Len(emitPos) : emitPos[k] < openPos
           /\ Emitted = Scan(SubSeq(input, 1, openPos - 1))
    /\ (Finished /\ IsNestText(input)
        /\ OpenThrough(NestTokens(input), Len(NestTokens(input)))) =>
           Emitted = <<"a">>

C3_Witness ==
    /\ Finished
    /\ in_comment
    /\ input = <<"a", "/", "*", "c", "o", "m">>
    /\ Emitted = <<"a">>

\* no "/*" and no "*/" in s
NoCommentSeq(s) ==
    \A i \in 1..(Len(s) - 1) :
        /\ ~(s[i] = SLASH /\ s[i + 1] = STAR)
        /\ ~(s[i] = STAR /\ s[i + 1] = SLASH)

\* no two adjacent characters of s are both in A
NoAdjacent(s, A) ==
    \A i \in 1..(Len(s) - 1) : ~(s[i] \in A /\ s[i + 1] \in A)

SkippedByLookahead ==
    Whitespace \cup {BAR}

TakenForLineBreak ==
    LineBreaks \cup {BAR}

\* no '/' of s is followed, across skipped characters only, by a '*'
NoSpacedOpener(s) ==
    \A i \in 1..Len(s), k \in 1..Len(s) :
        ~(/\ i < k
          /\ s[i] = SLASH
          /\ s[k] = STAR
          /\ \A j \in (i + 1)..(k - 1) : s[j] \in SkippedByLookahead)

RECURSIVE Collapse(_)
Collapse(s) ==
    IF Len(s) <= 1 THEN s
    ELSE IF s[Len(s)] \in LineBreaks /\ s[Len(s) - 1] \in LineBreaks
         THEN Collapse(SubSeq(s, 1, Len(s) - 1))
    ELSE Append(Collapse(SubSeq(s, 1, Len(s) - 1)), s[Len(s)])

\* C5  Blank-line collapse, as claimed: for an input without '/' and '*' that
\* does not begin with a line break, the text written is the input with every
\* run of '\r' and '\n' cut to its first character and every other character
\* unchanged.
C5_Original ==
    (/\ Finished
     /\ AllIn(input, Alphabet \ {SLASH, STAR})
     /\ (input # <<>> => input[1] \notin LineBreaks)) =>
        Emitted = Collapse(input)

\* C6  Leading blank suppression: the scan starts with last_char_was_newline
\* true and the flag stays true until the first character is written, so the
\* text written never begins with '\r' or '\n'.
C6_LeadingBlank ==
    /\ (pc = "loop" /\ pos = 0) => last_char_was_newline
    /\ (pc = "loop" /\ Emitted = <<>>) => last_char_was_newline
    /\ Emitted # <<>> => Emitted[1] \notin LineBreaks

C6_Witness ==
    /\ Finished
    /\ input = <<LF, LF, "a">>
    /\ Emitted = <<"a">>

\* C7  Whitespace-only lines preserved: an iteration that reads a space, a tab
\* or a form feed outside a comment writes it and clears the flag; and the
\* scan of "a\n\t\f\nb" and of "a\n   \nb" writes the input unchanged.
C7_WhitespaceKept ==
    [][ /\ (/\ pc = "loop"
            /\ pc' # "raised"
            /\ ~in_comment
            /\ Read1(input, pos) \in {SP, TAB, FF}) =>
               /\ Emitted' = Append(Emitted, Read1(input, pos))
               /\ ~last_char_was_newline'
        /\ (/\ pc' = "done"
            /\ f' = "closed"
            /\ input \in { <<"a", LF, TAB, FF, LF, "b">>,
                           <<"a", LF, SP, SP, SP, LF, "b">> }) =>
               Emitted' = input ]_vars

C7_Witness ==
    /\ Finished
    /\ input = <<"a", LF, SP, SP, SP, LF, "b">>
    /\ Emitted = input

\* the index of the first d of s after index i that only white space
\* separates from index i, 0 when there is none
SpacedPartner(s, i, d) ==
    IF \E k \in (i + 1)..Len(s) :
           s[k] = d /\ \A j \in (i + 1)..(k - 1) : s[j] \in Whitespace
    THEN CHOOSE k \in (i + 1)..Len(s) :
             s[k] = d /\ \A j \in (i + 1)..(k - 1) : s[j] \in Whitespace
    ELSE 0

\* C8  Delimiters spanning lines: an iteration that reads, outside a comment,
\* a '/' followed by white space and then '*' enters the comment; one that
\* reads, inside a comment, a '*' followed by white space and then '/' lowers
\* the nesting or leaves the comment; either iteration moves the cursor past
\* the second character of the delimiter and writes nothing.
C8_SpacedDelimiters ==
    [][ /\ (/\ pc = "loop"
            /\ pc' # "raised"
            /\ ~in_comment
            /\ Read1(input, pos) = SLASH
            /\ SpacedPartner(input, pos + 1, STAR) # 0) =>
               /\ in_comment'
               /\ pos' = SpacedPartner(input, pos + 1, STAR)
               /\ Emitted' = Emitted
        /\ (/\ pc = "loop"
            /\ pc' # "raised"
            /\ in_comment
            /\ Read1(input, pos) = STAR
            /\ SpacedPartner(input, pos + 1, SLASH) # 0) =>
               /\ pos' = SpacedPartner(input, pos + 1, SLASH)
               /\ Emitted' = Emitted
               /\ IF inner_comment_count > 0
                  THEN in_comment' /\ inner_comment_count' = inner_comment_count - 1
                  ELSE ~in_comment' /\ inner_comment_count' = 0 ]_vars

C8_Witness ==
    /\ Finished
    /\ input = <<"/", LF, "*", LF, "c", LF, "*", LF, "/", "a">>
    /\ Emitted = <<"a">>

\* t is s with some characters left out
RECURSIVE IsSubsequence(_, _)
IsSubsequence(t, s) ==
    IF t = <<>> THEN TRUE
    ELSE IF s = <<>> THEN FALSE
    ELSE IF Head(t) = Head(s) THEN IsSubsequence(Tail(t), Tail(s))
    ELSE IsSubsequence(t, Tail(s))

\* C9  Output is a subsequence of the input: every character written is the
\* source character at an index already consumed, the indices written strictly
\* increase, and so the text written is the consumed text with characters
\* left out.
C9_Subsequence ==
    /\ Len(emitPos) = Len(Emitted)
    /\ \A k \in 1..Len(emitPos) :
           /\ emitPos[k] \in 1..pos
           /\ Emitted[k] = input[emitPos[k]]
           /\ k > 1 => emitPos[k - 1] < emitPos[k]
    /\ IsSubsequence(Emitted, SubSeq(input, 1, pos))

C9_Witness ==
    /\ pc = "loop"
    /\ in_comment
    /\ Len(Emitted) >= 2
    /\ pos > Len(Emitted) + 2

\* C10  Resource safety, as claimed: when minimize_to is over, by return or by
\* exception, no file it opened is still open.
C10_Original ==
    pc \in {"done", "raised"} => (f # "open" /\ o # "open")

\* C11  Output routing, as claimed: within one run the written characters go
\* to one sink only; while minimize_to holds an output handle nothing is on
\* standard output; and while it holds none (no output path, or a path that
\* did not open) nothing is in the output file.
C11_Original ==
    /\ ~(stdout # <<>> /\ outfile # <<>>)
    /\ o # "None" => stdout = <<>>
    /\ (o = "None" /\ mainpc # "caught") => outfile = <<>>

\* C12  I/O failure is fatal and not retried, as claimed: once an exception
\* has left the scan, the input is not opened for a second scan and no further
\* character is written.
C12_Original ==
    mainpc = "caught" => (f = "None" /\ Len(stdout) = sinkBase)

\* the index of the first d of s after index i, 0 when there is none
NextIndexOf(s, i, d) ==
    IF \E k \in (i + 1)..Len(s) : s[k] = d
    THEN CHOOSE k \in (i + 1)..Len(s) :
             s[k] = d /\ \A j \in (i + 1)..(k - 1) : s[j] # d
    ELSE 0

\* C13  The lookahead leaves the cursor alone: the cursor after
\* __get_next_char is the cursor before it, so an iteration that takes no
\* delimiter branch consumes exactly the one character it read, and the drain
\* of a delimiter branch starts right after that character and ends on the
\* first delimiter character after it; no skipped character is passed over.
C13_LookaheadFrame ==
    [][ (pc = "loop" /\ pc' \in {"loop", "close", "spin"}) =>
            /\ CursorAfterPeek(input, Fetch(input, Locals).pos)
                   = Fetch(input, Locals).pos
            /\ Taken \in {"plain", "none"} => pos' = Fetch(input, Locals).pos
            /\ Taken \in {"opener", "inner"} =>
                   pos' = NextIndexOf(input, pos + 1, STAR)
            /\ Taken = "closer" =>
                   pos' = NextIndexOf(input, pos + 1, SLASH) ]_vars

C13_Witness ==
    /\ pc = "loop"
    /\ input = <<SLASH, SP, "a">>
    /\ pos = 2
    /\ Emitted = <<SLASH, SP>>

\* the first character of s after the cursor p that is no white space, EOF
\* when there is none
RECURSIVE FirstSignificant(_, _)
FirstSignificant(s, p) ==
    IF p >= Len(s) THEN EOF
    ELSE IF s[p + 1] \in Whitespace THEN FirstSignificant(s, p + 1)
    ELSE s[p + 1]

\* C14  The lookahead, as claimed: whenever an iteration calls it, it returns
\* the first character after the cursor that is not a space, tab, carriage
\* return, line feed or form feed, and the end-of-input value when there is
\* none; no other character is skipped.
C14_Original ==
    pc = "loop" =>
        get_next_char(input, Fetch(input, Locals).pos)
            = FirstSignificant(input, Fetch(input, Locals).pos)

\* C15  Line-break classification, as claimed: a character read outside a
\* comment counts as a line break exactly when it is '\r' or '\n', and every
\* other character read there that does not open a comment is written,
\* whatever the flag.
C15_Original ==
    (pc = "loop" /\ ~in_comment /\ Read1(input, pos) # EOF) =>
        /\ IsNewline(Read1(input, pos)) <=> Read1(input, pos) \in LineBreaks
        /\ (Read1(input, pos) \notin LineBreaks /\ Taken # "opener") =>
               PlainEmit(Fetch(input, Locals)) = Read1(input, pos)

\* what is left to do, in lexicographic order: whether main() may still
\* call minimize_to a second time, the stage of the call, and the characters
\* of the input not yet consumed
StageRank ==
    CASE pc = "start" -> 5
      [] pc = "call" -> 4
      [] pc = "open_input" -> 3
      [] pc = "loop" -> 2
      [] pc \in {"close", "raised"} -> 1
      [] OTHER -> 0

Variant ==
    <<IF pc = "start" \/ mainpc = "try" THEN 1 ELSE 0,
      StageRank,
      IF pc = "loop" THEN Len(input) - pos ELSE 0>>

LexLess(a, b) ==
    \/ a[1] < b[1]
    \/ a[1] = b[1] /\ a[2] < b[2]
    \/ a[1] = b[1] /\ a[2] = b[2] /\ a[3] < b[3]

\* C16  Termination: every step of the program decreases a variant that is
\* bounded below, an iteration of the loop never ends in a drain that reads
\* the end of the input for ever, every iteration that continues the loop has
\* consumed at least one more character, and the loop is left only with the
\* whole input consumed.
C16_Termination ==
    [][ /\ LexLess(Variant', Variant)
        /\ \A i \in 1..3 : Variant'[i] >= 0
        /\ pc = "loop" =>
               /\ pc' # "spin"
               /\ pc' = "loop" => (pos' > pos /\ pos' <= Len(input))
               /\ pc' = "close" => (pos' = Len(input) /\ char' = EOF) ]_vars

C16_Witness ==
    /\ Finished
    /\ input = Wrapped(<<"O", "O", "X", "X">>)
    /\ pos = Len(input)
    /\ Emitted = <<"a", "b">>

\* the depth of the specification, read off the two locals
Depth ==
    IF in_comment THEN 1 + inner_comment_count ELSE 0

\* C17  The nesting state: inner_comment_count is never negative and is
\* positive only inside a comment; read as a depth (0 outside a comment,
\* 1 + inner_comment_count inside), an opener raises it from 0 to 1, a nested
\* opener raises it by one, a closer lowers it by one, a closer at depth 1
\* giving depth 0 with the counter still 0, and no other iteration changes it.
C17_DepthConsistent ==
    [][ /\ inner_comment_count >= 0 /\ inner_comment_count' >= 0
        /\ inner_comment_count > 0 => in_comment
        /\ inner_comment_count' > 0 => in_comment'
        /\ (pc = "loop" /\ pc' \in {"loop", "close", "spin"}) =>
               /\ Taken = "opener" => (Depth = 0 /\ Depth' = 1)
               /\ Taken = "inner" => (Depth >= 1 /\ Depth' = Depth + 1)
               /\ Taken = "closer" => (Depth >= 1 /\ Depth' = Depth - 1)
               /\ (Taken = "closer" /\ Depth = 1) =>
                      (~in_comment' /\ inner_comment_count' = 0)
               /\ Taken \in {"plain", "none"} => Depth' = Depth ]_vars

C17_Witness ==
    /\ pc = "loop"
    /\ input = Wrapped(<<"O", "O", "X", "X">>)
    /\ pos = Len(input) - 1
    /\ ~in_comment
    /\ inner_comment_count = 0
    /\ Emitted = <<"a">>

\* C18  Drains: when an iteration takes a delimiter branch, the character its
\* drain looks for ('*' after an opener or a nested opener, '/' after a
\* closer) lies after the cursor, every character between the cursor and it
\* is one the lookahead skips, the drain stops on it without reading the end
\* of the input, and nothing is written.
C18_DrainFindsDelimiter ==
    [][ (pc = "loop" /\ Taken \in {"opener", "inner", "closer"}
         /\ pc' # "raised") =>
            LET d == IF Taken = "closer" THEN SLASH ELSE STAR
                start == Fetch(input, Locals).pos
            IN  /\ pc' = "loop"
                /\ pos' \in (start + 1)..Len(input)
                /\ input[pos'] = d
                /\ \A j \in (start + 1)..(pos' - 1) :
                       input[j] \in SkippedByLookahead
                /\ Emitted' = Emitted ]_vars

C18_Witness ==
    /\ pc = "loop"
    /\ input = <<SLASH, SP, STAR>>
    /\ pos = 3
    /\ in_comment
    /\ Emitted = <<>>

\* C19  Line breaks in the sink, as claimed: the text written never has two
\* adjacent line-break characters; while the loop runs, last_char_was_newline
\* is true exactly when nothing has been written yet or the last character
\* written is a line break ('\r' or '\n'); and "a\n/*c*/\nb" is written as
\* "a\nb".
C19_Original ==
    /\ NoAdjacent(Emitted, LineBreaks)
    /\ pc = "loop" =>
           (last_char_was_newline <=>
                (Emitted = <<>> \/ Emitted[Len(Emitted)] \in LineBreaks))
    /\ (Finished /\ input = <<"a", LF, "/", "*", "c", "*", "/", LF, "b">>) =>
           Emitted = <<"a", LF, "b">>

\* C20  A closer pattern in plain text: an iteration outside a comment that
\* reads '*' with '/' as the next significant character writes the '*',
\* consumes that one character only and stays outside a comment with the
\* counter at 0; "a*/b" is written as "a*/b".
C20_CloserInPlainText ==
    [][ /\ (pc = "loop" /\ ~in_comment /\ Read1(input, pos) = STAR
            /\ FirstSignificant(input, pos + 1) = SLASH /\ pc' # "raised") =>
               /\ pc' = "loop"
               /\ Emitted' = Append(Emitted, STAR)
               /\ pos' = pos + 1
               /\ ~in_comment'
               /\ inner_comment_count' = 0
        /\ (Finished' /\ input' = <<"a", "*", "/", "b">>) =>
               Emitted' = <<"a", "*", "/", "b">> ]_vars

C20_Witness ==
    /\ Finished
    /\ input = <<"a", "*", "/", "b">>
    /\ ~in_comment
    /\ Emitted = <<"a", "*", "/", "b">>

====
